---- MODULE Spec2Model ----
(***************************************************************************)
(* A model of lemur's certificate service (lemur/certificates/service.py)  *)
(* and of its exception taxonomy (lemur/exceptions.py).                    *)
(*                                                                         *)
(* The persistence collaborator (lemur.database), the Certificate model    *)
(* and the issuer plugins are not part of the two source files; they are   *)
(* modelled from their documented interface: database.update and           *)
(* database.create write the in-memory entity to the store,                *)
(* database.update_list reconciles an association list in memory.          *)
(***************************************************************************)
EXTENDS Integers, Sequences, FiniteSets, TLC

VARIABLES
    store,      \* persisted certificates: id -> certificate record
    userCerts,  \* persisted User.certificates: user -> set of certificate ids
    req,        \* the create() call in progress: its position and locals
    last,       \* outcome of the last finished service call
    cfg,        \* the csr_config handed to create_csr (SpecCsr)
    csrOut,     \* what the last create_csr call did (SpecCsr)
    log,        \* current_app.logger: the entries written so far
    lastExc,    \* the exception instance constructed last
    qres,       \* result of the last render()/stats() call
    sequence,   \* the last id the database gave to a certificate row
    builtins    \* the built-in names of the interpreter the service runs on

vars == <<store, userCerts, req, last, cfg, csrOut, log, lastExc, qres, sequence, builtins>>

\* ------------------------------------------------------------------ bounds

MaxCerts == 2
MaxAssoc == 2
MaxLog == 3

\* ------------------------------------------------------------------ domains

None == "None"
Users == {"u1", "u2"}
Owners == {"o1", "r1"}
Bodies == {"b1", "b2"}
DestIds == 1..MaxAssoc
NotifIds == 1..MaxAssoc
\* authority a1 is bound to a registered plugin, a2 to a plugin name nobody registered
Authorities == {"a1", "a2"}
RegisteredPlugins == {"p1"}
plugin_name(authority) == IF authority = "a1" THEN "p1" ELSE "p9"

\* ------------------------------------------------------------------ create_csr

\* the subject attributes create_csr reads, in the order it reads them
SubjectKeys ==
    <<"commonName", "organization", "organizationalUnit", "country", "state", "location">>

\* the six attributes the documentation lists as required
RequiredAttributes ==
    {"commonName", "organization", "organizationalUnit", "country", "state", "locality"}

ConfigKeys == RequiredAttributes \cup {"location"}

RECURSIVE FirstMissing(_, _, _)
\* index of the first attribute of names, from i on, that the key set lacks; 0 if none
FirstMissing(names, keyset, i) ==
    IF i > Len(names) THEN 0
    ELSE IF names[i] \notin keyset THEN i
    ELSE FirstMissing(names, keyset, i + 1)

\* the general names of the SubjectAlternativeName extension: DNSName entries only
general_names(names) == SelectSeq(names, LAMBDA t : t = "DNSName")

\* the interpreters the module can be loaded by: Python 2 has the built-in
\* unicode, Python 3 has not
Python2Builtins == {"unicode"}
Python3Builtins == {}
Interpreters == {Python2Builtins, Python3Builtins}

\* the result of create_csr reading the subject attributes names from c.  The
\* name unicode is looked up before csr_config is subscripted: where it is not
\* defined, line 276 raises NameError whatever the configuration holds.
BuildRequest(names, c) ==
    LET m == FirstMissing(names, c.keys, 1) IN
    IF "unicode" \notin builtins
    THEN [events |-> <<"generate_private_key", "NameError">>, err |-> "NameError",
          missing |-> None, csr |-> None, private_key |-> None,
          subject |-> <<>>, san |-> <<>>]
    ELSE IF m # 0
    THEN [events |-> <<"generate_private_key", "KeyError">>, err |-> "KeyError",
          missing |-> names[m], csr |-> None, private_key |-> None,
          subject |-> <<>>, san |-> <<>>]
    ELSE [events |-> <<"generate_private_key", "subject_name", "sign">>, err |-> "ok",
          missing |-> None, csr |-> "csr", private_key |-> "key",
          subject |-> names, san |-> general_names(c.names)]

\* create_csr: the key pair is generated first, then the subject is read from
\* csr_config attribute by attribute, each value passed to unicode() (a missing
\* attribute raises KeyError), then the extensions are added and the request is
\* signed.
create_csr(c) == BuildRequest(SubjectKeys, c)

KeyGenerated(r) == \E i \in 1..Len(r.events) : r.events[i] = "generate_private_key"

\* ------------------------------------------------------------------ Certificate

\* issuer and validity are parsed from the body by the Certificate constructor
IssuerOf(body) == IF body = "b1" THEN "ca" ELSE "cb"
NotAfterOf(body) == IF body = "b1" THEN 2 ELSE 40
NameOf(body) == IF body = "b1" THEN "web" ELSE "api"

\* Certificate(body, private_key, chain): a new in-memory record, no id yet
Certificate(body, private_key, chain) ==
    [id |-> 0, body |-> body, private_key |-> private_key, chain |-> chain,
     authority |-> None, user |-> None, owner |-> None, creator |-> None,
     active |-> TRUE, description |-> None,
     destinations |-> {}, notifications |-> {}, listeners |-> 0,
     name |-> NameOf(body), issuer |-> IssuerOf(body), not_after |-> NotAfterOf(body)]

\* ------------------------------------------------------------------ database

\* the id column is filled from a sequence: an id is never given twice
NextId == sequence + 1

\* the value of the sequence once the rows of st have been written
Issued(st) ==
    LET ids == DOMAIN st \cup {sequence} IN CHOOSE m \in ids : \A i \in ids : i <= m

\* database.update / database.create: write the entity to the store; a new
\* entity gets the next id
Persist(st, cert) ==
    LET id == IF cert.id = 0 THEN NextId ELSE cert.id
        c == [cert EXCEPT !.id = id]
    IN [i \in (DOMAIN st) \cup {id} |-> IF i = id THEN c ELSE st[i]]

Persisted(st, cert) == [cert EXCEPT !.id = IF cert.id = 0 THEN NextId ELSE cert.id]

\* database.update_list(model, attr, item_model, items): set reconciliation of
\* the association list, in memory
update_list(cert, attr, items) ==
    IF attr = "destinations" THEN [cert EXCEPT !.destinations = items]
    ELSE [cert EXCEPT !.notifications = items]

\* ------------------------------------------------------------------ mint

SignOutcomes == {"ok", "IssuerPaymentRequired", "IssuerError"}

\* mint raised err: nothing is returned; st is the store it leaves behind
MintFailure(err, st) ==
    [err |-> err, store |-> st, cert |-> Certificate(None, None, None),
     private_key |-> None, chain |-> None]

mint_persist_first(st, user, opts, sign, body) ==
    LET authority == opts.authority
        r == create_csr(opts.csr_config)
        cert == [Certificate(body, r.private_key, "chain") EXCEPT
                    !.user = user, !.authority = authority]
    IN  IF plugin_name(authority) \notin RegisteredPlugins
        THEN MintFailure("UnknownProvider", st)
        ELSE IF r.err # "ok"
        THEN MintFailure(r.err, st)
        ELSE IF sign # "ok"
        THEN MintFailure(sign, Persist(st, cert))
        ELSE [err |-> "ok", store |-> Persist(st, cert), cert |-> Persisted(st, cert),
              private_key |-> r.private_key, chain |-> "chain"]

mint_no_persist(st, user, opts, sign, body) ==
    LET authority == opts.authority
        r == create_csr(opts.csr_config)
        cert == [Certificate(body, r.private_key, "chain") EXCEPT
                    !.user = user, !.authority = authority]
    IN  IF plugin_name(authority) \notin RegisteredPlugins
        THEN MintFailure("UnknownProvider", st)
        ELSE IF r.err # "ok"
        THEN MintFailure(r.err, st)
        ELSE IF sign # "ok"
        THEN MintFailure(sign, st)
        ELSE [err |-> "ok", store |-> st, cert |-> cert,
              private_key |-> r.private_key, chain |-> "chain"]

\* mint(issuer_options) for caller g.user = user; sign and body are what the
\* issuer plugin answers.  Resolve the plugin, build the CSR, have the plugin
\* sign it, construct the record, attach user and authority, persist.
mint(st, user, opts, sign, body) ==
    LET authority == opts.authority
        r == create_csr(opts.csr_config)
        cert == [Certificate(body, r.private_key, "chain") EXCEPT
                    !.user = user, !.authority = authority]
    IN  IF plugin_name(authority) \notin RegisteredPlugins
        THEN MintFailure("UnknownProvider", st)
        ELSE IF r.err # "ok"
        THEN MintFailure(r.err, st)
        ELSE IF sign # "ok"
        THEN MintFailure(sign, st)
        ELSE [err |-> "ok", store |-> Persist(st, cert), cert |-> Persisted(st, cert),
              private_key |-> r.private_key, chain |-> "chain"]

\* ------------------------------------------------------------------ requests

\* the csr_config part of the issuer options: the subject attributes present
\* and the name types of the requested subject alternative names
CfgComplete == [keys |-> {SubjectKeys[i] : i \in 1..Len(SubjectKeys)}, names |-> <<"DNSName">>]
CfgDocumented == [keys |-> RequiredAttributes, names |-> <<>>]

CreateKwargs ==
    [authority : Authorities, owner : Owners, description : {"d1"},
     destinations : SUBSET DestIds, notifications : SUBSET NotifIds,
     csr_config : {CfgComplete, CfgDocumented}]

NoArgs == [owner |-> None, description |-> None, active |-> TRUE,
           destinations |-> {}, notifications |-> {}]

Args(owner, description, active, destinations, notifications) ==
    [owner |-> owner, description |-> description, active |-> active,
     destinations |-> destinations, notifications |-> notifications]

NoCert == Certificate(None, None, None)

Idle == [pc |-> "idle", user |-> None, args |-> NoArgs, cert |-> NoCert, steps |-> <<>>]

\* the outcome of a finished call: the error raised ("ok" if it returned), the
\* step that raised it, the id of the entity it held, its arguments, the key it
\* handed back, the steps it went through
Outcome(op, err, at, id, args, key, steps) ==
    [op |-> op, err |-> err, at |-> at, id |-> id, args |-> args,
     private_key |-> key, steps |-> steps]

NoOutcome == Outcome(None, "ok", None, 0, NoArgs, None, <<>>)

\* the model stops handing out ids at MaxCerts
HasRoom == sequence < MaxCerts

\* ------------------------------------------------------------------ create

\* create, line 178: cert, private_key, cert_chain = mint(kwargs)
CreateMint(user, kw, sign, body) ==
    /\ req.pc = "idle"
    /\ HasRoom
    /\ LET m == mint(store, user, kw, sign, body)
           args == Args(kw.owner, kw.description, TRUE, kw.destinations, kw.notifications)
       IN  /\ store' = m.store
           /\ IF m.err = "ok"
              THEN /\ req' = [pc |-> "wire_destinations", user |-> user, args |-> args,
                              cert |-> m.cert, steps |-> <<"mint">>]
                   /\ last' = NoOutcome
              ELSE /\ req' = Idle
                   /\ last' = Outcome("create", m.err, "mint", m.cert.id, args,
                                      m.private_key, <<>>)
    /\ sequence' = Issued(store')
    /\ UNCHANGED <<userCerts, cfg, csrOut, log, lastExc, qres, builtins>>

\* create, lines 180-182: set the owner, wire the destinations (in memory)
CreateWireDestinations(ok) ==
    /\ req.pc = "wire_destinations"
    /\ LET c == [req.cert EXCEPT !.owner = req.args.owner] IN
       IF ok
       THEN /\ req' = [req EXCEPT !.pc = "persist",
                          !.cert = update_list(c, "destinations", req.args.destinations),
                          !.steps = Append(@, "wire_destinations")]
            /\ last' = last
       ELSE /\ req' = Idle
            /\ last' = Outcome("create", "AssociationError", "wire_destinations",
                               req.cert.id, req.args, None, req.steps)
    /\ UNCHANGED <<store, userCerts, cfg, csrOut, log, lastExc, qres, sequence, builtins>>

CreatePersist_skipped ==
    /\ req.pc = "persist"
    /\ req' = [req EXCEPT !.pc = "attach_user",
                  !.cert = [@ EXCEPT !.description = req.args.description],
                  !.steps = Append(@, "persist")]
    /\ UNCHANGED <<store, userCerts, last, cfg, csrOut, log, lastExc, qres, sequence, builtins>>

\* create, lines 184-185: database.create(cert), then the description (in memory)
CreatePersist ==
    /\ req.pc = "persist"
    /\ store' = Persist(store, req.cert)
    /\ req' = [req EXCEPT !.pc = "attach_user",
                  !.cert = [@ EXCEPT !.description = req.args.description],
                  !.steps = Append(@, "persist")]
    /\ sequence' = Issued(store')
    /\ UNCHANGED <<userCerts, last, cfg, csrOut, log, lastExc, qres, builtins>>

\* create, lines 186-187: g.user.certificates.append(cert); database.update(g.user)
CreateAttachUser ==
    /\ req.pc = "attach_user"
    /\ userCerts' = [userCerts EXCEPT ![req.user] = @ \cup {req.cert.id}]
    /\ req' = [req EXCEPT !.pc = "wire_notifications",
                  !.steps = Append(Append(@, "attach_user"), "persist")]
    /\ UNCHANGED <<store, last, cfg, csrOut, log, lastExc, qres, sequence, builtins>>

\* create, line 191: wire the notifications (in memory)
CreateWireNotifications(ok) ==
    /\ req.pc = "wire_notifications"
    /\ IF ok
       THEN /\ req' = [req EXCEPT !.pc = "final_persist",
                          !.cert = update_list(@, "notifications", req.args.notifications),
                          !.steps = Append(@, "wire_notifications")]
            /\ last' = last
       ELSE /\ req' = Idle
            /\ last' = Outcome("create", "AssociationError", "wire_notifications",
                               req.cert.id, req.args, None, req.steps)
    /\ UNCHANGED <<store, userCerts, cfg, csrOut, log, lastExc, qres, sequence, builtins>>

\* create, lines 192-193: database.update(cert); return cert
CreateFinalPersist ==
    /\ req.pc = "final_persist"
    /\ store' = Persist(store, req.cert)
    /\ req' = Idle
    /\ last' = Outcome("create", "ok", None, req.cert.id, req.args, None,
                       Append(req.steps, "persist"))
    /\ sequence' = Issued(store')
    /\ UNCHANGED <<userCerts, cfg, csrOut, log, lastExc, qres, builtins>>

\* ------------------------------------------------------------------ import, upload

DefaultOwner == "security-team"
DefaultCreator == "lemur@nobody"

\* import_certificate(**kwargs); owner, name and user are None when not given
import_certificate(body, owner, name, user, notifications, ok) ==
    /\ req.pc = "idle"
    /\ HasRoom
    /\ LET c0 == Certificate(body, None, None)
           c1 == [c0 EXCEPT !.owner = IF owner = None THEN DefaultOwner ELSE owner,
                            !.creator = DefaultCreator,
                            !.name = IF name = None THEN @ ELSE name,
                            !.user = IF user = None THEN @ ELSE user]
           c2 == update_list(c1, "notifications", notifications)
           args == Args(owner, None, TRUE, {}, notifications)
       IN  IF ok
           THEN /\ store' = Persist(store, c2)
                /\ last' = Outcome("import", "ok", None, NextId, args, None, <<>>)
           ELSE /\ store' = store
                /\ last' = Outcome("import", "AssociationError", "wire_notifications", 0,
                                   NoArgs, None, <<>>)
    /\ sequence' = Issued(store')
    /\ UNCHANGED <<userCerts, req, cfg, csrOut, log, lastExc, qres, builtins>>

\* upload(**kwargs) by g.user = user.  The append to g.user.certificates after
\* database.create is not followed by a write of the user.
upload(user, body, private_key, chain, owner, destinations, notifications, ok) ==
    /\ req.pc = "idle"
    /\ HasRoom
    /\ LET c0 == Certificate(body, private_key, chain)
           c1 == update_list(c0, "destinations", destinations)
           c2 == update_list(c1, "notifications", notifications)
           c3 == [c2 EXCEPT !.owner = owner]
           args == Args(owner, None, TRUE, destinations, notifications)
       IN  IF ok
           THEN /\ store' = Persist(store, c3)
                /\ last' = Outcome("upload", "ok", None, NextId, args, None, <<>>)
           ELSE /\ store' = store
                /\ last' = Outcome("upload", "AssociationError", "wire", 0, NoArgs, None, <<>>)
    /\ sequence' = Issued(store')
    /\ UNCHANGED <<userCerts, req, cfg, csrOut, log, lastExc, qres, builtins>>

\* ------------------------------------------------------------------ update

update_swapped(cert_id, owner, description, active, destinations, notifications, ok) ==
    /\ req.pc = "idle"
    /\ cert_id \in DOMAIN store
    /\ ok
    /\ store' = Persist(store, [store[cert_id] EXCEPT
                    !.owner = owner, !.active = active, !.description = description,
                    !.notifications = destinations, !.destinations = notifications])
    /\ last' = Outcome("update", "ok", None, cert_id,
                       Args(owner, description, active, destinations, notifications),
                       None, <<>>)
    /\ sequence' = Issued(store')
    /\ UNCHANGED <<userCerts, req, cfg, csrOut, log, lastExc, qres, builtins>>

update_rewriting(cert_id, owner, description, active, destinations, notifications, ok) ==
    /\ req.pc = "idle"
    /\ cert_id \in DOMAIN store
    /\ ok
    /\ store' = Persist(store, [store[cert_id] EXCEPT
                    !.owner = owner, !.active = active, !.description = description,
                    !.notifications = notifications, !.destinations = destinations,
                    !.chain = None])
    /\ last' = Outcome("update", "ok", None, cert_id,
                       Args(owner, description, active, destinations, notifications),
                       None, <<>>)
    /\ sequence' = Issued(store')
    /\ UNCHANGED <<userCerts, req, cfg, csrOut, log, lastExc, qres, builtins>>

\* update(cert_id, owner, description, active, destinations, notifications)
update(cert_id, owner, description, active, destinations, notifications, ok) ==
    /\ req.pc = "idle"
    /\ LET args == Args(owner, description, active, destinations, notifications) IN
       IF cert_id \notin DOMAIN store
       THEN \* get() returned None: setting cert.owner raises
            /\ store' = store
            /\ last' = Outcome("update", "AttributeError", "get", 0, NoArgs, None, <<>>)
       ELSE LET c1 == [store[cert_id] EXCEPT !.owner = owner, !.active = active,
                                             !.description = description]
                c2 == update_list(c1, "notifications", notifications)
                c3 == update_list(c2, "destinations", destinations)
            IN  IF ok
                THEN /\ store' = Persist(store, c3)
                     /\ last' = Outcome("update", "ok", None, cert_id, args, None, <<>>)
                ELSE /\ store' = store
                     /\ last' = Outcome("update", "AssociationError", "wire", cert_id, NoArgs,
                                        None, <<>>)
    /\ sequence' = Issued(store')
    /\ UNCHANGED <<userCerts, req, cfg, csrOut, log, lastExc, qres, builtins>>

\* ------------------------------------------------------------------ delete

\* database.delete(entity): the row and its association rows are removed
Remove(st, id) == [i \in DOMAIN st \ {id} |-> st[i]]

\* delete(cert_id): database.delete(get(cert_id)); get() of an id the store
\* does not hold is None, which database.delete rejects
delete(cert_id) ==
    /\ req.pc = "idle"
    /\ IF cert_id \in DOMAIN store
       THEN /\ store' = Remove(store, cert_id)
            /\ userCerts' = [u \in Users |-> userCerts[u] \ {cert_id}]
            /\ last' = Outcome("delete", "ok", None, cert_id, NoArgs, None, <<>>)
       ELSE /\ store' = store
            /\ userCerts' = userCerts
            /\ last' = Outcome("delete", "UnmappedInstanceError", "delete", 0, NoArgs,
                               None, <<>>)
    /\ UNCHANGED <<req, cfg, csrOut, log, lastExc, qres, sequence, builtins>>

\* ------------------------------------------------------------------ Spec

NoCsr == [events |-> <<>>, err |-> None, missing |-> None, csr |-> None,
          private_key |-> None, subject |-> <<>>, san |-> <<>>]
NoExc == [cls |-> None, args |-> <<>>, err |-> None]
NoQueryArgs ==
    [caller |-> None, filter |-> <<>>, show |-> FALSE, destination_id |-> 0,
     notification_id |-> 0, time_range |-> 0, page |-> 1, count |-> 1,
     metric |-> None, active |-> None]
NoResult == [op |-> None, err |-> "ok", items |-> <<>>, total |-> 0,
             labels |-> <<>>, values |-> <<>>, branch |-> None, args |-> NoQueryArgs]

Init ==
    /\ store = << >>
    /\ userCerts = [u \in Users |-> {}]
    /\ req = Idle
    /\ last = NoOutcome
    /\ cfg = CfgComplete
    /\ csrOut = NoCsr
    /\ log = <<>>
    /\ lastExc = NoExc
    /\ qres = NoResult
    /\ sequence = 0
    /\ builtins \in Interpreters

\* the arguments the lifecycle specification draws from: an import with every
\* optional argument given and one with none, a create with every association
ImportKwargs ==
    {[owner |-> "o1", name |-> "legacy", user |-> "u1", notifications |-> NotifIds],
     [owner |-> None, name |-> None, user |-> None, notifications |-> {}]}
LifecycleKwargs ==
    {kw \in CreateKwargs : kw.owner = "o1" /\ kw.destinations = DestIds
                           /\ kw.notifications = NotifIds}

Next ==
    \/ \E user \in Users, kw \in LifecycleKwargs, sign \in SignOutcomes, body \in Bodies :
          CreateMint(user, kw, sign, body)
    \/ \E ok \in BOOLEAN : CreateWireDestinations(ok)
    \/ CreatePersist
    \/ CreateAttachUser
    \/ \E ok \in BOOLEAN : CreateWireNotifications(ok)
    \/ CreateFinalPersist
    \/ \E body \in Bodies, kw \in ImportKwargs, ok \in BOOLEAN :
          import_certificate(body, kw.owner, kw.name, kw.user, kw.notifications, ok)
    \/ \E user \in Users, body \in Bodies, ok \in BOOLEAN :
          upload(user, body, "ukey", "uchain", "o1", DestIds, {}, ok)
    \/ \E id \in 1..MaxCerts, ok \in BOOLEAN :
          \/ update(id, "o1", "d2", TRUE, {}, NotifIds, ok)
          \/ update(id, "r1", "d3", FALSE, DestIds, {}, ok)
    \/ \E id \in 1..MaxCerts : delete(id)

Spec == Init /\ [][Next]_vars

\* ------------------------------------------------------------------ SpecCreate

\* create() calls, and delete() of what they stored
CreateInputs ==
    {kw \in CreateKwargs :
        /\ kw.notifications = NotifIds
        /\ \/ kw.owner = "o1" /\ kw.destinations = DestIds
           \/ kw.owner = "r1" /\ kw.destinations = {1}}

NextCreate ==
    \/ \E user \in Users, kw \in CreateInputs, sign \in SignOutcomes, body \in Bodies :
          CreateMint(user, kw, sign, body)
    \/ \E ok \in BOOLEAN : CreateWireDestinations(ok)
    \/ CreatePersist
    \/ CreateAttachUser
    \/ \E ok \in BOOLEAN : CreateWireNotifications(ok)
    \/ CreateFinalPersist
    \/ \E id \in 1..MaxCerts : delete(id)

SpecCreate == Init /\ [][NextCreate]_vars

\* ------------------------------------------------------------------ SpecUpdate

\* update() applied to a certificate whose associations before the call are arbitrary
PriorCerts ==
    {[Certificate("b1", "key", "chain") EXCEPT
          !.id = 1, !.user = "u1", !.authority = "a1", !.owner = "o1", !.description = "d1",
          !.destinations = d, !.notifications = n] :
        d \in SUBSET DestIds, n \in SUBSET NotifIds}

InitUpdate ==
    /\ store \in {[i \in {1} |-> c] : c \in PriorCerts}
    /\ userCerts = [u \in Users |-> IF u = "u1" THEN {1} ELSE {}]
    /\ req = Idle
    /\ last = NoOutcome
    /\ cfg = CfgComplete
    /\ csrOut = NoCsr
    /\ log = <<>>
    /\ lastExc = NoExc
    /\ qres = NoResult
    /\ sequence = 1
    /\ builtins \in Interpreters

NextUpdate ==
    \/ \E id \in 1..MaxCerts, owner \in Owners, description \in {"d1", "d2"},
          active \in BOOLEAN, d \in SUBSET DestIds, n \in SUBSET NotifIds, ok \in BOOLEAN :
          update(id, owner, description, active, d, n, ok)
    \/ \E id \in 1..MaxCerts : delete(id)

SpecUpdate == InitUpdate /\ [][NextUpdate]_vars

\* ------------------------------------------------------------------ claims: create, mint

CreateOrder ==
    <<"mint", "wire_destinations", "persist", "attach_user", "persist",
      "wire_notifications", "persist">>

IsPrefix(s, t) == Len(s) <= Len(t) /\ \A i \in 1..Len(s) : s[i] = t[i]

\* a step in which create() is left by an exception of database.update_list
WiringFails == req.pc \in {"wire_destinations", "wire_notifications"} /\ req'.pc = "idle"

\* C1: whenever mint has succeeded inside create and the destination or the
\* notification wiring then fails, the certificate is in the store afterwards
\* with the body, chain, authority and requesting user mint gave it, and its
\* stored association sets are what they were before the failing step (empty
\* when the destination wiring failed).
C1_DurableAfterWiringFailure ==
    [][WiringFails =>
        /\ req.cert.id \in DOMAIN store'
        /\ LET c == store'[req.cert.id] IN
              /\ c.body = req.cert.body /\ c.body \in Bodies
              /\ c.chain = req.cert.chain /\ c.chain = "chain"
              /\ c.authority = req.cert.authority /\ c.authority \in Authorities
              /\ c.user = req.user
              /\ req.cert.id \in DOMAIN store
              /\ c.destinations = store[req.cert.id].destinations
              /\ c.notifications = store[req.cert.id].notifications
              /\ c.notifications = {}
              /\ req.pc = "wire_destinations" => c.destinations = {}]_vars

C1_Witness ==
    /\ last.op = "create" /\ last.err = "AssociationError" /\ last.at = "wire_destinations"
    /\ last.id \in DOMAIN store
    /\ store[last.id].body \in Bodies
    /\ store[last.id].destinations = {}

\* issuer options that differ in what mint reads: the authority and the csr_config
MintOptions ==
    {kw \in CreateKwargs : kw.owner = "o1" /\ kw.destinations = {} /\ kw.notifications = {}}

MintErrors ==
    {"UnknownProvider", "KeyError", "NameError", "IssuerPaymentRequired", "IssuerError"}

\* C2: when plugin resolution, CSR building or the plugin's create_certificate
\* fails, mint leaves the store as it was, returns no certificate and no key,
\* and raises that step's error as it is; mint changes the store only when
\* signing has succeeded.
C2_MintFailureLeavesStore ==
    /\ \A user \in Users, kw \in MintOptions, sign \in SignOutcomes, body \in Bodies :
          LET m == mint(store, user, kw, sign, body)
              resolved == plugin_name(kw.authority) \in RegisteredPlugins
              built == create_csr(kw.csr_config).err = "ok"
          IN  /\ m.err # "ok" => m.store = store /\ m.private_key = None /\ m.cert = NoCert
              /\ ~resolved => m.err = "UnknownProvider"
              /\ resolved /\ ~built => m.err = create_csr(kw.csr_config).err
              /\ resolved /\ built => m.err = sign
              /\ m.store # store => resolved /\ built /\ sign = "ok"
    /\ last.op = "create" /\ last.at = "mint" =>
          last.err \in MintErrors /\ last.private_key = None /\ last.id = 0

C2_Witness ==
    /\ last.op = "create" /\ last.at = "mint" /\ last.err = "IssuerPaymentRequired"
    /\ DOMAIN store # {}

\* C9: create goes through mint, destination wiring, persist, attach to the
\* user, persist, notification wiring, persist, in this order; when the
\* notification wiring fails the certificate is stored with its owner, its
\* destinations and its association to the requesting user.
C9_CreateOrder ==
    /\ IsPrefix(req.steps, CreateOrder)
    /\ last.op = "create" => IsPrefix(last.steps, CreateOrder)
    /\ last.op = "create" /\ last.err = "ok" => last.steps = CreateOrder
    /\ last.op = "create" /\ last.at = "wire_notifications" =>
          /\ last.steps = SubSeq(CreateOrder, 1, 5)
          /\ last.id \in DOMAIN store
          /\ store[last.id].owner = last.args.owner
          /\ store[last.id].destinations = last.args.destinations
          /\ store[last.id].user \in Users
          /\ \A u \in Users : last.id \in userCerts[u] <=> u = store[last.id].user

C9_Witness ==
    /\ last.op = "create" /\ last.at = "wire_notifications"
    /\ last.id \in DOMAIN store
    /\ store[last.id].destinations = DestIds
    /\ store[last.id].owner = "o1"

\* ------------------------------------------------------------------ claims: update

UpdateStep == req.pc = "idle" /\ req'.pc = "idle" /\ last'.op = "update"

DeleteStep == req.pc = "idle" /\ req'.pc = "idle" /\ last'.op = "delete"

\* C10: no step of create, import_certificate, upload or update removes a
\* stored certificate or changes its body, private key or chain, and a
\* certificate stored for the first time gets an id no certificate had before;
\* an update changes neither authority nor user, and touches no other
\* certificate.
C10_WriteOnce ==
    [][/\ \A id \in DOMAIN store :
             /\ ~DeleteStep => id \in DOMAIN store'
             /\ id \in DOMAIN store' =>
                   /\ store'[id].body = store[id].body
                   /\ store'[id].private_key = store[id].private_key
                   /\ store'[id].chain = store[id].chain
       /\ \A id \in DOMAIN store' \ DOMAIN store : id > sequence
       /\ UpdateStep =>
             /\ DOMAIN store' = DOMAIN store
             /\ userCerts' = userCerts
             /\ \A id \in DOMAIN store :
                   /\ store'[id].authority = store[id].authority
                   /\ store'[id].user = store[id].user
                   /\ id # last'.id => store'[id] = store[id]]_vars

C10_Witness ==
    /\ last.op = "update" /\ last.err = "ok"
    /\ Cardinality(DOMAIN store) = 2
    /\ store[last.id].private_key = "key"
    /\ store[last.id].owner = "r1"

\* C7: after update returns, the stored destination set is exactly the
\* requested one and so is the notification set, whatever they were before;
\* owner, description and active are the supplied values.
C7_UpdateRoundTrip ==
    last.op = "update" /\ last.err = "ok" =>
        /\ last.id \in DOMAIN store
        /\ store[last.id].destinations = last.args.destinations
        /\ store[last.id].notifications = last.args.notifications
        /\ store[last.id].owner = last.args.owner
        /\ store[last.id].description = last.args.description
        /\ store[last.id].active = last.args.active

C7_Witness ==
    /\ last.op = "update" /\ last.err = "ok"
    /\ store[last.id].destinations = {2}
    /\ store[last.id].notifications = {1}
    /\ store[last.id].owner = "r1"

\* ------------------------------------------------------------------ SpecCsr

CsrConfigs ==
    [keys : SUBSET ConfigKeys,
     names : {<<>>, <<"DNSName">>, <<"IPAddress", "DNSName">>}]

InitCsr ==
    /\ store = << >>
    /\ userCerts = [u \in Users |-> {}]
    /\ req = Idle
    /\ last = NoOutcome
    /\ cfg \in CsrConfigs
    /\ csrOut = NoCsr
    /\ log = <<>>
    /\ lastExc = NoExc
    /\ qres = NoResult
    /\ sequence = 0
    /\ builtins \in Interpreters

CallCreateCsr ==
    /\ csrOut' = create_csr(cfg)
    /\ UNCHANGED <<store, userCerts, req, last, cfg, log, lastExc, qres, sequence, builtins>>

SpecCsr == InitCsr /\ [][CallCreateCsr]_vars

CsrCalled == csrOut.err # None

\* C3 as stated: a configuration lacking one of the six documented attributes
\* makes create_csr fail with ConfigurationError before a key is generated.
C3_AsClaimed ==
    CsrCalled /\ ~(RequiredAttributes \subseteq cfg.keys) =>
        /\ csrOut.err = "ConfigurationError"
        /\ ~KeyGenerated(csrOut)
        /\ csrOut.private_key = None

\* ------------------------------------------------------------------ exceptions

LemurExceptions ==
    {"LemurException", "DuplicateError", "InvalidListener", "InvalidDistribution",
     "TokenExchangeFailed", "AttrNotFound", "IssuerPaymentRequired"}
PlainExceptions == {"InvalidConfiguration", "InvalidAuthority", "UnknownProvider"}

\* the classes that define an __init__ of their own
OwnInit ==
    {"LemurException", "DuplicateError", "InvalidDistribution", "TokenExchangeFailed",
     "AttrNotFound", "IssuerPaymentRequired"}
\* of these, the ones whose __init__ calls super().__init__()
CallsSuperInit == {"IssuerPaymentRequired"}

\* whether constructing cls runs LemurException.__init__
RunsLemurInit(cls) ==
    /\ cls \in LemurExceptions
    /\ \/ cls = "LemurException"
       \/ cls \notin OwnInit
       \/ cls \in CallsSuperInit

\* the numbers of positional arguments the __init__ that cls runs accepts:
\* (self, key), (self, field) and (self, message) take one, (self, error,
\* description) takes two, (self, *args, **kwargs) and Exception's take any
Arity(cls) ==
    CASE cls \in {"DuplicateError", "InvalidDistribution", "AttrNotFound",
                  "IssuerPaymentRequired"} -> {1}
      [] cls = "TokenExchangeFailed" -> {2}
      [] OTHER -> Nat

\* the log after constructing an instance of cls with arguments args:
\* LemurException.__init__ is current_app.logger.exception(self)
LogAfter(lg, cls, args) ==
    IF RunsLemurInit(cls) THEN Append(lg, [cls |-> cls, args |-> args]) ELSE lg

\* cls(*args): with a number of arguments __init__ does not accept the call
\* raises TypeError and there is no instance
Construct(cls, args) ==
    /\ Len(log) < MaxLog
    /\ IF Len(args) \in Arity(cls)
       THEN /\ lastExc' = [cls |-> cls, args |-> args, err |-> "ok"]
            /\ log' = LogAfter(log, cls, args)
       ELSE /\ lastExc' = [cls |-> cls, args |-> args, err |-> "TypeError"]
            /\ log' = log
    /\ UNCHANGED <<store, userCerts, req, last, cfg, csrOut, qres, sequence, builtins>>

ConstructorArgs == {<<>>, <<"x">>, <<"x", "y">>}

NextExc ==
    \E cls \in LemurExceptions \cup PlainExceptions, args \in ConstructorArgs :
       Construct(cls, args)

SpecExc == Init /\ [][NextExc]_vars

\* C8 as stated: constructing an instance of any LemurException subclass adds
\* one entry to the application log.
C8_AsClaimed ==
    [][lastExc'.cls \in LemurExceptions /\ lastExc'.err = "ok" =>
          Len(log') = Len(log) + 1]_vars

\* ------------------------------------------------------------------ strings

\* A string the query code takes apart is a sequence of characters.
S_issuer == <<"i", "s", "s", "u", "e", "r">>
S_destination == <<"d", "e", "s", "t", "i", "n", "a", "t", "i", "o", "n">>
S_active == <<"a", "c", "t", "i", "v", "e">>
S_inactive == <<"i", "n">> \o S_active
S_name == <<"n", "a", "m", "e">>
S_owner == <<"o", "w", "n", "e", "r">>
S_bogus == <<"b", "o", "g", "u", "s">>
S_true == <<"t", "r", "u", "e">>
S_false == <<"f", "a", "l", "s", "e">>

\* the characters of the values stored in the inventory
Chars(v) ==
    CASE v = "ca" -> <<"c", "a">>
      [] v = "cb" -> <<"c", "b">>
      [] v = "web" -> <<"w", "e", "b">>
      [] v = "api" -> <<"a", "p", "i">>
      [] v = "legacy" -> <<"l", "e", "g", "a", "c", "y">>
      [] v = "o1" -> <<"o", "1">>
      [] v = "r1" -> <<"r", "1">>
      [] v = "x1" -> <<"x", "1">>
      [] v = "x2" -> <<"x", "2">>
      [] OTHER -> <<>>

LowerChar(ch) ==
    CASE ch = "A" -> "a" [] ch = "B" -> "b" [] ch = "C" -> "c" [] ch = "R" -> "r"
      [] ch = "W" -> "w" [] ch = "X" -> "x" [] OTHER -> ch

Lower(str) == [i \in 1..Len(str) |-> LowerChar(str[i])]

\* needle in hay, for Python strings
Contains(hay, needle) ==
    \E i \in 0..(Len(hay) - Len(needle)) : SubSeq(hay, i + 1, i + Len(needle)) = needle

\* column ILIKE '%term%'
ilike(value, term) == Contains(Lower(value), Lower(term))

Join(a, b) == a \o <<";">> \o b

RECURSIVE split(_)
\* str.split(';')
split(str) ==
    IF \A i \in 1..Len(str) : str[i] # ";" THEN <<str>>
    ELSE LET i == CHOOSE k \in 1..Len(str) :
                      str[k] = ";" /\ \A j \in 1..(k - 1) : str[j] # ";"
         IN <<SubSeq(str, 1, i - 1)>> \o split(SubSeq(str, i + 1, Len(str)))

InList(x, lst) == \E i \in 1..Len(lst) : lst[i] = x

\* the integer a term is compared as, against an id column; 0 matches no id
IdOf(term) ==
    CASE term = <<"1">> -> 1 [] term = <<"2">> -> 2 [] term = <<"3">> -> 3 [] OTHER -> 0

\* ------------------------------------------------------------------ inventory

AuthorityName(a) == IF a = "a1" THEN "x1" ELSE "x2"

\* Role rows: (name, user_id)
Roles == {[name |-> "r1", user_id |-> "u1"], [name |-> "r2", user_id |-> "u2"]}
RoleNames(user) == {r.name : r \in {q \in Roles : q.user_id = user}}

\* a row of the certificate table; a minted one (with an authority) has the key
\* and the chain mint gave it
Stored(body, user, owner, authority, destinations, notifications, active, listeners) ==
    [Certificate(body, IF authority = None THEN None ELSE "key",
                 IF authority = None THEN None ELSE "chain") EXCEPT
        !.user = user, !.owner = owner, !.authority = authority,
        !.destinations = destinations, !.notifications = notifications,
        !.active = active, !.listeners = listeners]

\* the certificates the query specifications fill the inventory from
Catalogue ==
    {Stored("b1", "u1", "o1", "a1", {1}, {1}, TRUE, 1),
     Stored("b2", "u2", "r1", None, {}, {}, FALSE, 0),
     Stored("b1", "u2", "o1", "a1", {2}, {}, TRUE, 0),
     Stored("b2", "u1", "r1", "a1", {1}, {}, TRUE, 1)}

Inventories ==
    UNION {{[i \in 1..n |-> [f[i] EXCEPT !.id = i]] : f \in [1..n -> Catalogue]} :
              n \in 0..MaxCerts}

\* ------------------------------------------------------------------ sort_and_page

RECURSIVE Sorted(_)
\* the ids of a set in ascending order
Sorted(ids) ==
    IF ids = {} THEN <<>>
    ELSE LET m == CHOOSE x \in ids : \A y \in ids : x <= y
         IN <<m>> \o Sorted(ids \ {m})

\* database.sort_and_page: the page-th page of count items, and the total
sort_and_page(ids, page, count) ==
    LET all == Sorted(ids)
        from == count * (page - 1) + 1
        to == IF count * page < Len(all) THEN count * page ELSE Len(all)
    IN [items |-> SubSeq(all, from, to), total |-> Len(all)]

\* ------------------------------------------------------------------ render

FilterableColumns == {S_name, S_owner}

ColumnValue(c, column) == IF column = S_name THEN Chars(c.name) ELSE Chars(c.owner)

\* database.filter(query, Certificate, terms)
database_filter(st, ids, terms) ==
    IF terms[1] \notin FilterableColumns THEN [err |-> "AttrNotFound", ids |-> {}]
    ELSE IF Len(terms) < 2 THEN [err |-> "IndexError", ids |-> {}]
    ELSE [err |-> "ok",
          ids |-> {i \in ids : ilike(ColumnValue(st[i], terms[1]), terms[2])}]

show_filter_user_only(st, ids, caller) ==
    {i \in ids : st[i].user = caller}

\* render, lines 237-244: owned by the caller, or owner is a role of the caller
show_filter(st, ids, caller) ==
    {i \in ids : st[i].user = caller \/ st[i].owner \in RoleNames(caller)}

\* render, lines 214-235: the free-text filter; done says render returns at once
text_filter(st, ids, filt) ==
    LET terms == split(filt) IN
    IF InList(S_issuer, terms)
    THEN IF Len(terms) < 2
         THEN [err |-> "IndexError", ids |-> {}, branch |-> "issuer", done |-> TRUE]
         ELSE [err |-> "ok", branch |-> "issuer", done |-> TRUE,
               ids |-> {i \in ids :
                           \/ ilike(Chars(st[i].issuer), terms[2])
                           \/ /\ st[i].authority # None
                              /\ ilike(Chars(AuthorityName(st[i].authority)), terms[2])}]
    ELSE IF InList(S_destination, terms)
    THEN IF Len(terms) < 2
         THEN [err |-> "IndexError", ids |-> {}, branch |-> "destination", done |-> TRUE]
         ELSE [err |-> "ok", branch |-> "destination", done |-> FALSE,
               ids |-> {i \in ids : IdOf(terms[2]) \in st[i].destinations}]
    ELSE IF Contains(filt, S_active)
    THEN IF Len(terms) < 2
         THEN [err |-> "IndexError", ids |-> {}, branch |-> "active", done |-> TRUE]
         ELSE [err |-> "ok", branch |-> "active", done |-> FALSE,
               ids |-> {i \in ids : \/ st[i].active /\ terms[2] = S_true
                                    \/ ~st[i].active /\ terms[2] = S_false}]
    ELSE LET r == database_filter(st, ids, terms)
         IN [err |-> r.err, ids |-> r.ids, branch |-> "generic", done |-> r.err # "ok"]

\* render(args) for caller g.user: the ids matched, before sort_and_page
render(st, caller, a) ==
    LET all == DOMAIN st
        f == IF a.filter = <<>>
             THEN [err |-> "ok", ids |-> all, branch |-> "none", done |-> FALSE]
             ELSE text_filter(st, all, a.filter)
        q1 == IF a.show THEN show_filter(st, f.ids, caller) ELSE f.ids
        q2 == IF a.destination_id # 0
              THEN {i \in q1 : a.destination_id \in st[i].destinations} ELSE q1
        q3 == IF a.notification_id # 0
              THEN {i \in q2 : a.notification_id \in st[i].notifications} ELSE q2
        q4 == IF a.time_range # 0
              THEN {i \in q3 : st[i].not_after <= a.time_range /\ st[i].not_after >= 0}
              ELSE q3
    IN  IF f.err # "ok" THEN [err |-> f.err, ids |-> {}, branch |-> f.branch]
        ELSE IF f.done THEN [err |-> "ok", ids |-> f.ids, branch |-> f.branch]
        ELSE [err |-> "ok", ids |-> q4, branch |-> f.branch]

Filters ==
    {<<>>,
     S_issuer,
     Join(S_issuer, <<"C">>),
     Join(S_issuer, <<"x">>),
     Join(S_destination, <<"1">>),
     Join(S_active, S_true),
     Join(S_name, <<"W", "e">>),
     Join(S_owner, <<"r">>),
     Join(S_bogus, <<"x">>),
     Join(S_inactive, S_true),
     Join(S_bogus, S_issuer)}

\* an id or a time range of 0 stands for an argument that was not given
RenderArgs ==
    [caller : Users, filter : Filters, show : BOOLEAN, destination_id : {0, 1},
     notification_id : {0, 1}, time_range : {0, 8}, page : {1, 2}, count : {1, MaxCerts},
     metric : {None}, active : {None}]

\* the pending call render(args) is carried out
Render ==
    /\ qres.op = None
    /\ qres.args \in RenderArgs
    /\ LET a == qres.args
           r == render(store, a.caller, a)
           p == sort_and_page(r.ids, a.page, a.count)
       IN qres' = [op |-> "render", err |-> r.err, branch |-> r.branch,
                   items |-> IF r.err = "ok" THEN p.items ELSE <<>>,
                   total |-> IF r.err = "ok" THEN p.total ELSE 0,
                   labels |-> <<>>, values |-> <<>>, args |-> a]
    /\ log' = IF qres'.err = "AttrNotFound"
              THEN LogAfter(log, "AttrNotFound", <<"field">>) ELSE log
    /\ UNCHANGED <<store, userCerts, req, last, cfg, csrOut, lastExc, sequence, builtins>>

\* ------------------------------------------------------------------ stats

StatsWindowWeeks == 32

\* not_after lies between now and now + 32 weeks
st_in_window(c) == c.not_after <= StatsWindowWeeks /\ c.not_after >= 0

StatsArgs ==
    [caller : {None}, filter : {<<>>}, show : {FALSE}, destination_id : {0, 1, 2},
     notification_id : {0}, time_range : {0}, page : {1}, count : {1},
     metric : {"issuer", "owner", "not_after"}, active : {None, "true"}]

\* the orders in which a GROUP BY may hand back the groups of a set of keys
Orders(ks) ==
    {f \in [1..Cardinality(ks) -> ks] : \A i, j \in 1..Cardinality(ks) : f[i] = f[j] => i = j}

Attr(c, metric) == IF metric = "owner" THEN c.owner ELSE c.issuer

\* the certificates the caller's restrictions select
Restricted(st, a) ==
    {i \in DOMAIN st :
        /\ a.active = "true" => st[i].listeners > 0
        /\ a.destination_id # 0 => a.destination_id \in st[i].destinations}

\* stats, lines 376-392: the rows the final query counts.  The query built in
\* lines 368-374 is not the one executed.
Counted(st, a) ==
    IF a.metric = "not_after"
    THEN {i \in DOMAIN st : st_in_window(st[i])}
    ELSE {i \in DOMAIN st : a.active = "true" => st[i].listeners > 0}

\* the pending call stats(**kwargs) is carried out
Stats ==
    /\ qres.op = None
    /\ qres.args \in StatsArgs
    /\ LET a == qres.args
           rows == Counted(store, a)
           ks == {Attr(store[i], a.metric) : i \in rows}
       IN \E order \in Orders(ks) :
             qres' = [op |-> "stats", err |-> "ok", branch |-> None, items |-> <<>>,
                      total |-> 0, labels |-> order,
                      values |-> [k \in 1..Len(order) |->
                                    Cardinality({i \in rows :
                                        Attr(store[i], a.metric) = order[k]})],
                      args |-> a]
    /\ UNCHANGED <<store, userCerts, req, last, cfg, csrOut, log, lastExc, sequence, builtins>>

\* ------------------------------------------------------------------ SpecQuery

\* one query, with any arguments, against any inventory

InitQuery ==
    /\ store \in Inventories
    /\ userCerts = [u \in Users |-> {i \in DOMAIN store : store[i].user = u}]
    /\ req = Idle
    /\ last = NoOutcome
    /\ cfg = CfgComplete
    /\ csrOut = NoCsr
    /\ log = <<>>
    /\ lastExc = NoExc
    /\ qres \in {[NoResult EXCEPT !.args = a] : a \in RenderArgs \cup StatsArgs}
    /\ sequence = Cardinality(DOMAIN store)
    /\ builtins \in Interpreters

NextQuery ==
    \/ Render
    \/ Stats

SpecQuery == InitQuery /\ [][NextQuery]_vars

Visible(c, caller) == c.user = caller \/ c.owner \in RoleNames(caller)

Items(r) == {r.items[i] : i \in 1..Len(r.items)}

\* C4 as stated: with show=true, whatever the other arguments, only
\* certificates of the caller or of one of the caller's roles are returned.
C4_AsClaimed ==
    qres.op = "render" /\ qres.args.show =>
        \A i \in Items(qres) : Visible(store[i], qres.args.caller)

\* C4, amended: with show=true and a filter that does not take the issuer
\* branch, only certificates of the caller or of one of the caller's roles
\* are returned, and with no other restriction given all of them are matched;
\* the issuer branch returns before the visibility filter is applied.
C4_VisibilityUnlessIssuer ==
    qres.op = "render" /\ qres.args.show /\ qres.branch # "issuer" =>
        /\ \A i \in Items(qres) : Visible(store[i], qres.args.caller)
        /\ /\ qres.args.filter = <<>> /\ qres.args.destination_id = 0
           /\ qres.args.notification_id = 0 /\ qres.args.time_range = 0
           => /\ qres.total =
                    Cardinality({i \in DOMAIN store : Visible(store[i], qres.args.caller)})
              /\ qres.args.page = 1 /\ qres.args.count >= qres.total =>
                    Items(qres) = {i \in DOMAIN store : Visible(store[i], qres.args.caller)}

C4_Witness ==
    /\ qres.op = "render" /\ qres.args.show /\ qres.branch = "none"
    /\ qres.args.caller = "u1"
    /\ \E i \in Items(qres) : store[i].user = "u2" /\ store[i].owner = "r1"
    /\ \E i \in DOMAIN store : ~Visible(store[i], "u1")

SpecialTerms == {S_issuer, S_destination, S_active}

\* C5 as stated: a filter whose field is neither a special term nor a
\* filterable column is handed to the generic filter and fails with
\* AttrNotFound.
C5_AsClaimed ==
    /\ qres.op = "render" /\ qres.args.filter # <<>>
    /\ split(qres.args.filter)[1] \notin SpecialTerms \cup FilterableColumns
    => qres.branch = "generic" /\ qres.err = "AttrNotFound"

\* C6 as stated: labels and values are parallel, and values[i] is the number
\* of certificates in group labels[i] among those passing the restrictions
\* the caller gave.
C6_AsClaimed ==
    qres.op = "stats" =>
        /\ Len(qres.labels) = Len(qres.values)
        /\ \A k \in 1..Len(qres.labels) :
              qres.values[k] =
                 Cardinality({i \in Restricted(store, qres.args) :
                     /\ Attr(store[i], qres.args.metric) = qres.labels[k]
                     /\ qres.args.metric = "not_after" =>
                           st_in_window(store[i])})

====
